---- MODULE Spec2Model ----
(***************************************************************************)
(* SelfRadio: the playback scheduler (RadioScheduler), the playlist        *)
(* generator (PlaylistGenerator) and the two broadcast engines             *)
(* (StreamManager, EnhancedStreamManager) as one state machine.            *)
(*                                                                         *)
(* Node runs every handler to completion on one thread, so one action is   *)
(* one handler run up to its next real suspension (a timer, a file system  *)
(* call, a child-process event).  An await on a promise that is already    *)
(* settled resumes in the microtask queue, before any timer or I/O event,  *)
(* and is therefore part of the same action.                               *)
(***************************************************************************)
EXTENDS Integers, Sequences, FiniteSets, TLC

\* ------------------------------------------------------------------ bounds
NumSinks == 2        \* response objects that may connect
MaxProcs == 2        \* child processes spawned in one run
MaxQueue == 1        \* queue length at which cron triggers are no longer taken
InitialCount == 1    \* count passed to generatePlaylist by generateInitialPlaylist (50 in the code)
RefillCount == 1     \* count passed to generatePlaylist by scheduleNext (20 in the code)
MaxFiles == 1        \* concat list files named at one time
MaxChunks == 2       \* chunks of pipeline output one sink is handed
ExtraTitles == 2     \* titles the large music pool holds beyond the history capacity
MaxSelections == 2   \* music selections made once the play history is full
MaxCount == 2        \* largest count passed to generatePlaylist with a stocked catalog
LongCount == 8       \* largest count passed to generatePlaylist with a catalog without music
MaxNow == 2          \* latest reading of the clock, in milliseconds
LongQueue == 3       \* queue length up to which triggers are taken when the queue is studied
MaxTitleBytes == 40  \* longest of the short titles written into a metadata record
MaxToneMs == 48      \* longest of the short durations a fallback tone is requested for

\* ------------------------------------------------------- program constants
maxHistorySize == 20
fallbackDuration == 5000
upcomingCount == 5
sampleRate == 44100
defaultToneDuration == 30000

Sinks == 1 .. NumSinks

\* ------------------------------------------------------------------- items
\* An AudioItem as far as the scheduler and the engines read it: its title and
\* whether it has a path.  Library items always carry the path of their file.
NullItem == [title |-> "<null>", path |-> "null"]

LibItem(t) == [title |-> t, path |-> "file"]

createFallbackItem == [title |-> "Radio Station", path |-> "null"]

\* The catalog after scanLibrary: one set of titles per pool.
EmptyLibrary ==
  [music |-> {}, intros |-> {}, outros |-> {}, solos |-> {}, ids |-> {},
   jingles |-> {}, ads |-> {}, toAd |-> {}, toWeather |-> {},
   weather |-> [b \in {"SUN", "WIND", "RAIN", "FOG", "CLOUDY"} |-> {}],
   timeOfDay |-> [b \in {"MORNING", "AFTERNOON", "EVENING", "NIGHT"} |-> {}]]

SmallLibrary ==
  [EmptyLibrary EXCEPT !.music = {"song1"}, !.ads = {"AD_1"}]

Libraries == {EmptyLibrary, SmallLibrary}

\* getRandomFrom: null for an empty pool, else a copy of any member.
getRandomFrom(pool) ==
  IF pool = {} THEN {NullItem} ELSE {LibItem(t) : t \in pool}

\* ------------------------------------------------------- playlist generator
Range(s) == {s[i] : i \in 1 .. Len(s)}

RemoveAt(s, i) == SubSeq(s, 1, i - 1) \o SubSeq(s, i + 1, Len(s))

\* wasRecentlyPlayed that looks at the newest entry of the history only.
wasRecentlyPlayed_lastOnly(hist, title) == hist # <<>> /\ title = hist[Len(hist)]

wasRecentlyPlayed(hist, title) == title \in Range(hist)

\* addToHistory that evicts as soon as the capacity is reached.
addToHistory_early(hist, title) ==
  LET h == Append(hist, title)
  IN  IF Len(h) >= maxHistorySize THEN Tail(h) ELSE h

addToHistory(hist, title) ==
  LET h == Append(hist, title)
  IN  IF Len(h) > maxHistorySize THEN Tail(h) ELSE h

\* A generator result: the items produced, the play history afterwards, and
\* err = TRUE when the call did not return (createMusic redraws without bound
\* once every title of the pool is in the history: RangeError, stack exhausted).
Gen(items, hist, err) == [items |-> items, hist |-> hist, err |-> err]

createMusic(lib, hist) ==
  IF lib.music = {} THEN {Gen(<<createFallbackItem>>, hist, FALSE)}
  ELSE LET fresh == {t \in lib.music : ~wasRecentlyPlayed(hist, t)}
       IN  IF fresh = {} THEN {Gen(<<>>, hist, TRUE)}
           ELSE {Gen(<<LibItem(t)>>, addToHistory(hist, t), FALSE) : t \in fresh}

\* createMusicWithIntro / createMusicWithOutro: the DJ item and the music item
\* as one list (createGaplessSequence sets flags and start times on the members
\* and returns the same list, in the same order); the bare music item when the
\* DJ pool is empty.
createMusicWithIntro(lib, hist) ==
  UNION {{IF m.err THEN m
          ELSE IF intro = NullItem THEN m
          ELSE Gen(<<intro>> \o m.items, m.hist, FALSE)
          : m \in createMusic(lib, hist)} : intro \in getRandomFrom(lib.intros)}

createMusicWithOutro(lib, hist) ==
  UNION {{IF m.err THEN m
          ELSE IF outro = NullItem THEN m
          ELSE Gen(m.items \o <<outro>>, m.hist, FALSE)
          : outro \in getRandomFrom(lib.outros)} : m \in createMusic(lib, hist)}

\* A single draw handed on as it is, null included.
DrawOrFiller_raw(pool, hist) ==
  {Gen(<<it>>, hist, FALSE) : it \in getRandomFrom(pool)}

\* A single draw from a pool, or the filler item when the pool is empty.
DrawOrFiller(pool, hist) ==
  {Gen(<<IF it = NullItem THEN createFallbackItem ELSE it>>, hist, FALSE)
     : it \in getRandomFrom(pool)}

createDJSolo(lib, hist) == DrawOrFiller(lib.solos, hist)
createJingle(lib, hist) == DrawOrFiller(lib.jingles, hist)
createStationID(lib, hist) == DrawOrFiller(lib.ids, hist)

\* determineContentType: the types the two random draws can yield at a position.
determineContentType(position) ==
  LET forced == {p \in 5 .. 7 : position > 0 /\ position % p = 0}
  IN  (IF forced # {} THEN {"station-id"} ELSE {})
        \cup (IF forced # 5 .. 7
              THEN {"jingle", "dj-solo", "music-with-intro", "music-with-outro",
                    "music-solo"}
              ELSE {})

BuildContent(lib, hist, contentType) ==
  CASE contentType = "music-with-intro" -> createMusicWithIntro(lib, hist)
    [] contentType = "music-with-outro" -> createMusicWithOutro(lib, hist)
    [] contentType = "music-solo" -> createMusic(lib, hist)
    [] contentType = "dj-solo" -> createDJSolo(lib, hist)
    [] contentType = "jingle" -> createJingle(lib, hist)
    [] contentType = "station-id" -> createStationID(lib, hist)
    [] OTHER -> createMusic(lib, hist)

\* generatePlaylist(count): the loop from position i on, acc the playlist so far.
RECURSIVE generateFrom(_, _, _, _)
generateFrom(lib, acc, i, count) ==
  IF i >= count \/ acc.err THEN {acc}
  ELSE LET built == UNION {BuildContent(lib, acc.hist, ct) : ct \in determineContentType(i)}
       IN  UNION {generateFrom(lib,
                               IF b.err THEN Gen(acc.items, acc.hist, TRUE)
                               ELSE Gen(acc.items \o b.items, b.hist, FALSE),
                               i + 1, count)
                    : b \in built}

generatePlaylist(lib, hist, count) == generateFrom(lib, Gen(<<>>, hist, FALSE), 0, count)

\* createAdSegment that returns what it drew, an empty list included.
createAdSegment_bare(lib) ==
  LET trans == {IF t = NullItem THEN <<>> ELSE <<t>> : t \in getRandomFrom(lib.toAd)}
      ad == {IF a = NullItem THEN <<>> ELSE <<a>> : a \in getRandomFrom(lib.ads)}
      ads == ad \cup {a1 \o a2 : a1 \in ad, a2 \in ad}
  IN  {t \o a : t \in trans, a \in ads}

\* createAdSegment: optional TO_AD transition, then 1 or 2 ad draws; one filler
\* item when nothing was drawn.  Always returned as a list.
createAdSegment(lib) ==
  LET trans == {IF t = NullItem THEN <<>> ELSE <<t>> : t \in getRandomFrom(lib.toAd)}
      ad == {IF a = NullItem THEN <<>> ELSE <<a>> : a \in getRandomFrom(lib.ads)}
      ads == ad \cup {a1 \o a2 : a1 \in ad, a2 \in ad}
  IN  {IF t \o a = <<>> THEN <<createFallbackItem>> ELSE t \o a : t \in trans, a \in ads}

\* A weather condition string is read through includes() on its lower-cased
\* text only: it is modelled by the set of keywords it contains.
Keywords == {"sun", "clear", "wind", "rain", "shower", "fog", "mist", "cloud", "overcast"}

\* mapWeatherToType with the rain test placed before the wind test.
mapWeatherToType_rainFirst(condition) ==
  IF "sun" \in condition \/ "clear" \in condition THEN "SUN"
  ELSE IF "rain" \in condition \/ "shower" \in condition THEN "RAIN"
  ELSE IF "wind" \in condition THEN "WIND"
  ELSE IF "fog" \in condition \/ "mist" \in condition THEN "FOG"
  ELSE "CLOUDY"

mapWeatherToType(condition) ==
  IF "sun" \in condition \/ "clear" \in condition THEN "SUN"
  ELSE IF "wind" \in condition THEN "WIND"
  ELSE IF "rain" \in condition \/ "shower" \in condition THEN "RAIN"
  ELSE IF "fog" \in condition \/ "mist" \in condition THEN "FOG"
  ELSE IF "cloud" \in condition \/ "overcast" \in condition THEN "CLOUDY"
  ELSE "CLOUDY"

\* createWeatherSegment: optional TO_WEATHER transition, then the announcement
\* of the mapped bucket; one filler item when nothing was drawn.  Always a list.
createWeatherSegment(lib, condition) ==
  LET trans == {IF t = NullItem THEN <<>> ELSE <<t>> : t \in getRandomFrom(lib.toWeather)}
      ann == {IF a = NullItem THEN <<>> ELSE <<a>>
                : a \in getRandomFrom(lib.weather[mapWeatherToType(condition)])}
  IN  {IF t \o a = <<>> THEN <<createFallbackItem>> ELSE t \o a : t \in trans, a \in ann}

\* createTimeSegment: one draw from the bucket's pool, or the filler item.
createTimeSegment(lib, timeOfDay) ==
  {IF t = NullItem THEN createFallbackItem ELSE t : t \in getRandomFrom(lib.timeOfDay[timeOfDay])}

\* ----------------------------------------------------------- condition strings
\* A string is the sequence of its characters.
UpperCase == <<"A", "B", "C", "D", "E", "F", "G", "H", "I", "J", "K", "L", "M",
               "N", "O", "P", "Q", "R", "S", "T", "U", "V", "W", "X", "Y", "Z">>
LowerCase == <<"a", "b", "c", "d", "e", "f", "g", "h", "i", "j", "k", "l", "m",
               "n", "o", "p", "q", "r", "s", "t", "u", "v", "w", "x", "y", "z">>

toLowerChar(c) ==
  IF \E i \in 1 .. Len(UpperCase) : UpperCase[i] = c
  THEN LowerCase[CHOOSE i \in 1 .. Len(UpperCase) : UpperCase[i] = c]
  ELSE c

toLowerCase(str) == [i \in 1 .. Len(str) |-> toLowerChar(str[i])]

includes(str, sub) ==
  \E i \in 0 .. Len(str) - Len(sub) : SubSeq(str, i + 1, i + Len(sub)) = sub

Spelling ==
  [sun |-> <<"s", "u", "n">>, clear |-> <<"c", "l", "e", "a", "r">>,
   wind |-> <<"w", "i", "n", "d">>, rain |-> <<"r", "a", "i", "n">>,
   shower |-> <<"s", "h", "o", "w", "e", "r">>, fog |-> <<"f", "o", "g">>,
   mist |-> <<"m", "i", "s", "t">>, cloud |-> <<"c", "l", "o", "u", "d">>,
   overcast |-> <<"o", "v", "e", "r", "c", "a", "s", "t">>]

\* The keywords mapWeatherToType finds in a condition string: includes() on the
\* lower-cased text.
KeywordsIn(str) == {k \in Keywords : includes(toLowerCase(str), Spelling[k])}

\* Condition strings: one or two words of a weather report, in several casings.
Words ==
  {<<>>, <<" ">>,
   <<"C", "l", "e", "a", "r">>, <<"C", "l", "o", "u", "d", "s">>,
   <<"R", "a", "i", "n">>, <<"W", "I", "N", "D">>, <<"w", "i", "n", "d", "y">>,
   <<"F", "o", "g">>, <<"m", "i", "s", "t">>, <<"S", "u", "N", "n", "y">>,
   <<"S", "H", "O", "W", "E", "R", "S">>, <<"O", "v", "e", "r", "c", "a", "s", "t">>,
   <<"S", "n", "o", "w">>, <<"H", "a", "z", "e">>}

ConditionStrings == {a \o b : a \in Words, b \in Words}

\* ------------------------------------------------------------ item objects
\* The builders above give the members of a list in order.  Here the members
\* are the objects the code works on, with the fields it reads and writes:
\* duration and startTime, and the three gapless flags (FALSE: not set).
NoTime == -1

Durations == {0, 1000, 3000}

Clock == 1 .. MaxNow

\* createAudioItem / createMusicItem: duration as analysed, startTime null;
\* createMusic stamps the music item it returns; createFallbackItem.
AudioItem(lib, item, dur, now) ==
  [title |-> item.title, path |-> item.path,
   duration |-> IF item = createFallbackItem THEN fallbackDuration ELSE dur[item.title],
   startTime |-> IF item = createFallbackItem \/ item.title \in lib.music THEN now ELSE NoTime,
   isGapless |-> FALSE, isGaplessStart |-> FALSE, isGaplessEnd |-> FALSE]

\* Every draw hands the builder the one object of the pool that holds the
\* title: two draws of one title are one object.
Objects_shared(items) ==
  [i \in 1 .. Len(items) |-> CHOOSE j \in 1 .. i :
     items[j] = items[i] /\ \A k \in 1 .. j - 1 : items[k] # items[i]]

\* getRandomFrom returns a copy ({...item}): every member of a list is an
\* object of its own.
Objects(items) == [i \in 1 .. Len(items) |-> i]

\* items.forEach of createGaplessSequence from member i on.
RECURSIVE stampFrom(_, _, _, _)
stampFrom(heap, refs, i, currentTime) ==
  IF i > Len(refs) THEN heap
  ELSE stampFrom([heap EXCEPT ![refs[i]].startTime = currentTime,
                              ![refs[i]].isGapless = TRUE],
                 refs, i + 1, currentTime + heap[refs[i]].duration)

\* createGaplessSequence(items): refs are the members, heap the objects.
createGaplessSequence(heap, refs, now) ==
  IF Len(refs) <= 1 THEN heap
  ELSE LET h1 == [heap EXCEPT ![refs[1]].isGaplessStart = TRUE]
           h2 == [h1 EXCEPT ![refs[Len(refs)]].isGaplessEnd = TRUE]
       IN  stampFrom(h2, refs, 1, now)

\* The list a segment builder returns, as objects: the members it drew, passed
\* through createGaplessSequence (which leaves a list of one member as it is).
Built(lib, items, dur, now) ==
  LET refs == Objects(items)
      heap == [k \in 1 .. Len(items) |-> AudioItem(lib, items[k], dur, now)]
      h == createGaplessSequence(heap, refs, now)
  IN  [i \in 1 .. Len(items) |-> h[refs[i]]]

\* The analysed durations of the files behind the members of a list.
DurationsOf(items) ==
  [{items[i].title : i \in {j \in 1 .. Len(items) : items[j] # createFallbackItem}}
     -> Durations]

\* ------------------------------------------------------------------- state
VARIABLES
  engine,            \* which broadcast engine the scheduler was constructed with
  library,           \* AudioLibrary.library after scanLibrary
  sm,                \* the engine object's fields
  procs,             \* the child processes spawned so far, by pid
  sinks,             \* the response objects: status and what they have received
  pending,           \* engine continuations suspended on a file system call
  files,             \* concat list files that exist in the temp directory
  crashed,           \* an exception reached the event loop: the Node process is gone
  queue,             \* RadioScheduler.queue
  currentTrack,      \* RadioScheduler.currentTrack
  isPlaying,         \* RadioScheduler.isPlaying
  timers,            \* pending setTimeout callbacks of the scheduler
  lastPlayedMusic,   \* PlaylistGenerator.lastPlayedMusic
  phase,             \* "constructed" until initialize() has run, then "initialized"
  stopped,           \* history: RadioScheduler.stop() has been called
  lastOp,            \* history: the handler that ran last and what it did
  flow,              \* the sinks as writable streams: which report backpressure
  out                \* the generator or scheduler function applied last, and its result

vars == <<engine, library, sm, procs, sinks, pending, files, crashed, queue,
          currentTrack, isPlaying, timers, lastPlayedMusic, phase, stopped, lastOp,
          flow, out>>

SpawnOutcomes == {"ok", "errEvent", "throw"}

\* The engine and its environment as one value, so that a handler is a function
\* from world to world.  failed, played and poc are the history of one handler
\* run: the sinks whose write threw, the item handed to playTrack and the
\* outcome of spawning its pipeline.
World ==
  [sm |-> sm, procs |-> procs, sinks |-> sinks, pending |-> pending,
   files |-> files, crashed |-> crashed,
   failed |-> {}, played |-> NullItem, poc |-> "none"]

\* ------------------------------------------------------- child processes
\* A child process: the handlers set on it (kind: those of a StreamManager
\* track or tone pipeline, or those of setupFFmpegErrorHandling), the track its
\* handlers closed over, the sinks its output is piped to, and where it is:
\*   running   started and producing output
\*   failed    could not be started: 'error' is to be emitted, then 'close'
\*   errored   could not be started, 'error' delivered: 'close' is to be emitted
\*   killed    ended by kill(): 'close' is to be emitted, with code null
\*   exited    ended by itself: 'close' is to be emitted, with its exit code
\*   gone      ended and all its events delivered
\* file is the concat list the process was started on ('-i', concatFile), 0 for
\* a process that reads a track or the tone.
\* spawn() that returns: a running process, or (errEvent) one that failed to
\* start.
NewProc(kind, track, oc) ==
  [kind |-> kind, track |-> track,
   st |-> IF oc = "ok" THEN "running" ELSE "failed",
   piped |-> {}, file |-> 0]

Reaped == [kind |-> "gone", track |-> NullItem, st |-> "gone", piped |-> {}, file |-> 0]

\* A running process ends: its output stream ends with it (nothing is attached
\* to it any more).
End(ps, p, st) == [ps EXCEPT ![p].st = st, ![p].piped = {}]

\* kill('SIGTERM'): a running process ends by the signal; no effect on a process
\* that has already ended.
Kill(ps, p) == IF ps[p].st = "running" THEN End(ps, p, "killed") ELSE ps

\* The event a process emits next, and the codes its 'close' can carry.
NextEvent(pr) ==
  CASE pr.st = "failed" -> "error"
    [] pr.st \in {"errored", "killed", "exited"} -> "close"
    [] OTHER -> "none"

CloseCodes(pr) ==
  CASE pr.st = "killed" -> {"null"}
    [] pr.st = "exited" -> {"zero", "nonzero"}
    [] OTHER -> {"errno"}

Running(ps) == {p \in 1 .. Len(ps) : ps[p].st = "running"}

\* The clients a new stream is piped to: forEach over clients, skipping destroyed.
LiveClients(w) == {s \in w.sm.clients : w.sinks[s].st # "destroyed"}

\* this.ffmpegProcess = spawn(...); this.currentStream = this.ffmpegProcess.stdout
SpawnAsCurrent(w, kind, track, oc) ==
  LET pid == Len(w.procs) + 1
  IN  [w EXCEPT !.procs = Append(@, NewProc(kind, track, oc)),
                !.sm.ffmpegProcess = pid,
                !.sm.currentStream = pid]

\* this.currentStream.pipe(client, {end: false}) for each of the clients: they
\* are attached to the output of the process, if it produces any.
Pipe(w, cs) ==
  IF w.procs[w.sm.currentStream].st = "running"
  THEN [w EXCEPT !.procs[w.sm.currentStream].piped = @ \cup cs]
  ELSE w

\* ------------------------------------------------------------ StreamManager
\* stopCurrentStream with the kill forgotten: the fields are cleared only.
SM_stopCurrentStream_noKill(w) ==
  [w EXCEPT !.sm.ffmpegProcess = 0, !.sm.currentStream = 0]

SM_stopCurrentStream(w) ==
  LET w1 == IF w.sm.ffmpegProcess # 0
            THEN [w EXCEPT !.procs = Kill(@, w.sm.ffmpegProcess),
                           !.sm.ffmpegProcess = 0]
            ELSE w
  IN  [w1 EXCEPT !.sm.currentStream = 0]

\* The tone pipeline has a 'close' handler only: a spawn that throws, or one that
\* emits 'error', is an uncaught exception.
SM_playFallbackAudio(w, track, toc) ==
  LET w1 == SM_stopCurrentStream(w)
  IN  IF toc = "throw" THEN [w1 EXCEPT !.crashed = TRUE]
      ELSE LET w2 == SpawnAsCurrent(w1, "tone", track, toc)
           IN  Pipe(w2, LiveClients(w2))

SM_playTrack(w, track, oc, toc) ==
  IF track.path = "null" THEN SM_playFallbackAudio(w, track, toc)
  ELSE LET w1 == SM_stopCurrentStream(w)
       IN  IF oc = "throw" THEN SM_playFallbackAudio(w1, track, toc)
           ELSE LET w2 == SpawnAsCurrent(w1, "track", track, oc)
                IN  Pipe(w2, LiveClients(w2))

\* addClient that tears the running pipeline down before registering the sink.
SM_addClient_restarts(w, s) ==
  SM_stopCurrentStream([w EXCEPT !.sm.clients = @ \cup {s}])

SM_addClient(w, s) ==
  LET w1 == [w EXCEPT !.sm.clients = @ \cup {s}]
  IN  IF w1.sm.currentStream # 0 THEN Pipe(w1, {s}) ELSE w1

\* What is recorded of a response object is what it received as a registered
\* client; it starts again when the object leaves the set.
Forget(w, gone) ==
  [w EXCEPT !.sinks = [s \in Sinks |->
                         IF s \in gone THEN [@[s] EXCEPT !.st = "open", !.meta = 0, !.during = FALSE]
                         ELSE @[s]]]

SM_removeClient(w, s) == Forget([w EXCEPT !.sm.clients = @ \ {s}], {s})

SM_stop(w) == Forget([SM_stopCurrentStream(w) EXCEPT !.sm.clients = {}], w.sm.clients)

\* 'close' of a track or tone pipeline.
SM_onClose(w, p) == [w EXCEPT !.sm.currentStream = 0]

\* 'error' of a track pipeline: fallback for the track the handler closed over.
SM_onError(w, p, toc) ==
  IF w.procs[p].kind = "tone" THEN [w EXCEPT !.crashed = TRUE]
  ELSE SM_playFallbackAudio(w, w.procs[p].track, toc)

\* ---------------------------------------------------- EnhancedStreamManager
\* stopCurrentStream, stop and canPlayGapless are called but not defined in the
\* class as given; they are taken from the design: tear down the running
\* pipeline; kill the pipeline and clear the listener set.
ESM_stopCurrentStream(w) ==
  LET w1 == IF w.sm.ffmpegProcess # 0
            THEN [w EXCEPT !.procs = Kill(@, w.sm.ffmpegProcess),
                           !.sm.ffmpegProcess = 0]
            ELSE w
  IN  [w1 EXCEPT !.sm.currentStream = 0]

ESM_stop(w) == Forget([ESM_stopCurrentStream(w) EXCEPT !.sm.clients = {}], w.sm.clients)

\* this.currentTrack = track.  The sinks' record counts are kept per current
\* track, so they start again here.
SetCurrentTrack(w, track) ==
  [w EXCEPT !.sm.currentTrack = track,
            !.sinks = [s \in Sinks |-> [@[s] EXCEPT !.meta = 0, !.during = FALSE]]]

\* sendICYMetadata: one record for the current track written to the sink; a
\* write that throws is caught and ignored.
sendICYMetadata(w, s) ==
  IF w.sm.currentTrack = NullItem THEN w
  ELSE IF w.sinks[s].st = "faulty" THEN [w EXCEPT !.failed = @ \cup {s}]
  ELSE [w EXCEPT !.sinks[s].meta = @ + 1]

broadcastICYMetadata(w) ==
  IF w.sm.currentTrack = NullItem THEN w
  ELSE [w EXCEPT
          !.sinks = [s \in Sinks |->
                       IF s \in LiveClients(w) THEN sendICYMetadata(w, s).sinks[s]
                       ELSE @[s]],
          !.failed = @ \cup {s \in LiveClients(w) : sendICYMetadata(w, s).failed # w.failed}]

setupStreamPiping(w) == Pipe(w, LiveClients(w))

ESM_playFallbackAudio(w, track) == ESM_stopCurrentStream(w)

\* The handlers set on the process read this.currentTrack, not the track.
ESM_createAudioStream(w, track, oc) ==
  setupStreamPiping(SpawnAsCurrent(w, "enhanced", NullItem, oc))

ESM_playTrack(w, track, oc) ==
  LET w1 == SetCurrentTrack(w, track)
  IN  IF track.path = "null" THEN ESM_playFallbackAudio(w1, track)
      ELSE LET w2 == ESM_stopCurrentStream(w1)
           IN  IF oc = "throw" THEN ESM_playFallbackAudio(w2, track)
               ELSE broadcastICYMetadata(ESM_createAudioStream(w2, track, oc))

\* The name createConcatFile gives the list file: the smallest id no file,
\* suspended continuation or engine field still refers to.
FilesInUse(w) ==
  w.files \cup {w.sm.currentConcatFile} \cup {w.pending[i].file : i \in 1 .. Len(w.pending)}

FreshFile(w) ==
  CHOOSE f \in 1 .. MaxFiles + 1 :
    /\ \A g \in 1 .. f : g \in FilesInUse(w) <=> g # f

\* playGaplessSequence up to the await of fs.writeFile in createConcatFile.
ESM_playGaplessSequence(w, tracks) ==
  IF tracks = <<>> THEN w
  ELSE LET w1 == ESM_stopCurrentStream(SetCurrentTrack(w, tracks[1]))
       IN  [w1 EXCEPT !.pending =
              Append(@, [k |-> "write", tracks |-> tracks, file |-> FreshFile(w1)])]

ESM_createConcatStream(w, concatFile, oc) ==
  setupStreamPiping(
    [SpawnAsCurrent(w, "enhanced", NullItem, oc)
       EXCEPT !.procs[Len(w.procs) + 1].file = concatFile,
              !.sm.currentConcatFile = concatFile])

\* playGaplessSequence from the completion of fs.writeFile on.
ESM_afterWrite(w, i, written, oc, oc2) ==
  LET c == w.pending[i]
      w1 == [w EXCEPT !.pending = RemoveAt(@, i),
                      !.files = IF written THEN @ \cup {c.file} ELSE @]
  IN  IF written /\ oc # "throw"
      THEN broadcastICYMetadata(ESM_createConcatStream(w1, c.file, oc))
      ELSE [ESM_playTrack(w1, c.tracks[1], oc2)
              EXCEPT !.played = c.tracks[1], !.poc = oc2]

ESM_addClient(w, s) ==
  LET w1 == sendICYMetadata([w EXCEPT !.sm.clients = @ \cup {s}], s)
      w2 == [w1 EXCEPT !.sinks[s].during = (w.sm.currentTrack # NullItem)]
  IN  IF w2.sm.currentStream # 0 THEN Pipe(w2, {s}) ELSE w2

ESM_removeClient(w, s) == Forget([w EXCEPT !.sm.clients = @ \ {s}], {s})

\* 'close' of a track or concat pipeline, up to the await of fs.unlink.
ESM_onClose(w, p) ==
  IF w.sm.currentConcatFile # 0
  THEN [w EXCEPT !.pending =
          Append(@, [k |-> "unlink", tracks |-> <<>>, file |-> w.sm.currentConcatFile])]
  ELSE [w EXCEPT !.sm.currentStream = 0]

\* The 'close' handler from the completion of fs.unlink on.
ESM_afterUnlink(w, i) ==
  [w EXCEPT !.pending = RemoveAt(@, i),
            !.files = @ \ {w.pending[i].file},
            !.sm.currentConcatFile = 0,
            !.sm.currentStream = 0]

ESM_onError(w, p) == ESM_playFallbackAudio(w, w.sm.currentTrack)

\* ---------------------------------------------------------------- scheduler
\* The engine call of the scheduler, by the class of the engine object.
playTrack(w, track, oc, toc) ==
  [(IF engine = "SM" THEN SM_playTrack(w, track, oc, toc) ELSE ESM_playTrack(w, track, oc))
     EXCEPT !.played = track, !.poc = IF track.path = "null" THEN "none" ELSE oc]

\* A queue entry: a single item, or a list of items (seg).
Single(item) == [seg |-> FALSE, items |-> <<item>>]
Segment(items) == [seg |-> TRUE, items |-> items]

\* generatePlaylist spreads every builder's result into the playlist.
Entries(items) == [i \in 1 .. Len(items) |-> Single(items[i])]

Sched ==
  [queue |-> queue, currentTrack |-> currentTrack, timers |-> timers,
   hist |-> lastPlayedMusic, w |-> World]

AdvanceTimer == [cb |-> "next", seq |-> <<>>]

\* playSequenceIndividually that goes back to the queue after every member.
playSequenceIndividually_requeue(S, sequence, oc, toc) ==
  [S EXCEPT !.w = playTrack(@, Head(sequence), oc, toc),
            !.queue = IF Tail(sequence) = <<>> THEN @ ELSE @ \o <<Segment(Tail(sequence))>>,
            !.timers = Append(@, AdvanceTimer)]

\* playSequenceIndividually for a list with at least one member (the lists the
\* builders return are never empty, and the timer callback tests the rest).
playSequenceIndividually(S, sequence, oc, toc) ==
  [S EXCEPT !.w = playTrack(@, Head(sequence), oc, toc),
            !.timers = Append(@, [cb |-> "seq", seq |-> Tail(sequence)])]

\* scheduleNext whose gapless branch falls through into the per-item branch:
\* the list is handed to playGaplessSequence with its advance timer, and then
\* played member by member as well.
scheduleNext_fallsThrough(S, g, cg, oc, toc) ==
  IF S.queue = <<>> /\ g.err THEN [S EXCEPT !.w.crashed = TRUE]
  ELSE
    LET q == IF S.queue = <<>> THEN Entries(g.items) ELSE S.queue
        S0 == [S EXCEPT !.hist = IF S.queue = <<>> THEN g.hist ELSE @]
    IN  IF q = <<>> THEN [S0 EXCEPT !.queue = q, !.currentTrack = NullItem]
        ELSE
          LET nextItem == Head(q)
              S1 == [S0 EXCEPT !.queue = Tail(q), !.currentTrack = nextItem.items[1]]
          IN  IF nextItem.seg
              THEN playSequenceIndividually(
                     IF cg
                     THEN [S1 EXCEPT !.w = ESM_playGaplessSequence(@, nextItem.items),
                                     !.timers = Append(@, AdvanceTimer)]
                     ELSE S1,
                     nextItem.items, oc, toc)
              ELSE [S1 EXCEPT !.w = playTrack(@, nextItem.items[1], oc, toc),
                              !.timers = Append(@, AdvanceTimer)]

\* scheduleNext.  g is the result of generatePlaylist when the queue is empty,
\* cg the answer of canPlayGapless.
scheduleNext(S, g, cg, oc, toc) ==
  IF S.queue = <<>> /\ g.err THEN [S EXCEPT !.w.crashed = TRUE]
  ELSE
    LET q == IF S.queue = <<>> THEN Entries(g.items) ELSE S.queue
        S0 == [S EXCEPT !.hist = IF S.queue = <<>> THEN g.hist ELSE @]
    IN  IF q = <<>> THEN [S0 EXCEPT !.queue = q, !.currentTrack = NullItem]
        ELSE
          LET nextItem == Head(q)
              S1 == [S0 EXCEPT !.queue = Tail(q), !.currentTrack = nextItem.items[1]]
          IN  IF nextItem.seg
              THEN IF cg
                   THEN [S1 EXCEPT !.w = ESM_playGaplessSequence(@, nextItem.items),
                                   !.timers = Append(@, AdvanceTimer)]
                   ELSE playSequenceIndividually(S1, nextItem.items, oc, toc)
              ELSE [S1 EXCEPT !.w = playTrack(@, nextItem.items[1], oc, toc),
                              !.timers = Append(@, AdvanceTimer)]

\* The bucket with the afternoon running up to and including 18 h.
timeOfDay_lateAfternoon(hour) ==
  IF hour >= 12 /\ hour <= 18 THEN "AFTERNOON"
  ELSE IF hour >= 18 /\ hour < 22 THEN "EVENING"
  ELSE IF hour >= 22 \/ hour < 6 THEN "NIGHT"
  ELSE "MORNING"

\* scheduleTimeAnnouncement's bucket for the hour.
timeOfDay(hour) ==
  IF hour >= 12 /\ hour < 18 THEN "AFTERNOON"
  ELSE IF hour >= 18 /\ hour < 22 THEN "EVENING"
  ELSE IF hour >= 22 \/ hour < 6 THEN "NIGHT"
  ELSE "MORNING"

\* Every sink accepts data, none has received any; no function applied yet.
NoFlow == [slow |-> {}, needDrain |-> {}, got |-> [s \in Sinks |-> 0]]

NoCall == [fn |-> "none"]

\* getUpcoming: title, type and duration read on each of the first entries of
\* the queue.  An item has all three (createAudioItem, createFallbackItem): its
\* type is a string and its duration a number.  An entry that is a list is an
\* Array, which has no such properties: reading them gives undefined.
Undefined == "undefined"

getUpcoming(q) ==
  [i \in 1 .. (IF Len(q) < upcomingCount THEN Len(q) ELSE upcomingCount) |->
     LET track == q[i]
     IN  IF track.seg
         THEN [title |-> Undefined, type |-> Undefined, duration |-> Undefined]
         ELSE [title |-> track.items[1].title, type |-> "string", duration |-> "number"]]

\* ------------------------------------------------------------------ actions
Op(name, sink, pid, code, w) ==
  [op |-> name, sink |-> sink, code |-> code,
   proc |-> IF pid = 0 THEN "none" ELSE procs[pid].kind,
   failed |-> w.failed, played |-> w.played, poc |-> w.poc]

CommitWorld(w) ==
  /\ sm' = w.sm
  /\ procs' = w.procs
  /\ sinks' = w.sinks
  /\ pending' = w.pending
  /\ files' = w.files
  /\ crashed' = w.crashed

CommitSched(S) ==
  /\ queue' = S.queue
  /\ currentTrack' = S.currentTrack
  /\ timers' = S.timers
  /\ lastPlayedMusic' = S.hist
  /\ CommitWorld(S.w)

PendingWrites == {i \in 1 .. Len(pending) : pending[i].k = "write"}

\* Room for one more child process and one more list file within the bounds.
CanSpawn == Len(procs) + Cardinality(PendingWrites) < MaxProcs
CanName == Cardinality(FilesInUse(World) \ {0}) < MaxFiles

GaplessAnswers == IF engine = "ESM" /\ CanName THEN BOOLEAN ELSE {FALSE}

Init ==
  /\ engine \in {"SM", "ESM"}
  /\ library \in Libraries
  /\ sm = [clients |-> {}, currentStream |-> 0, ffmpegProcess |-> 0,
           currentTrack |-> NullItem, currentConcatFile |-> 0]
  /\ procs = <<>>
  /\ sinks = [s \in Sinks |-> [st |-> "open", added |-> FALSE, meta |-> 0, during |-> FALSE]]
  /\ pending = <<>>
  /\ files = {}
  /\ crashed = FALSE
  /\ queue = <<>>
  /\ currentTrack = NullItem
  /\ isPlaying = FALSE
  /\ timers = <<>>
  /\ lastPlayedMusic = <<>>
  /\ phase = "constructed"
  /\ stopped = FALSE
  /\ lastOp = Op("new", 0, 0, "none", World)
  /\ flow = NoFlow
  /\ out = NoCall

\* RadioScheduler.initialize: generateInitialPlaylist, then the cron jobs.
initialize ==
  /\ phase = "constructed" /\ ~crashed
  /\ \E g \in generatePlaylist(library, lastPlayedMusic, InitialCount),
        cg \in GaplessAnswers, oc \in SpawnOutcomes, toc \in SpawnOutcomes :
       LET S == IF g.err THEN [Sched EXCEPT !.w.crashed = TRUE]
                ELSE scheduleNext([Sched EXCEPT !.queue = Entries(g.items), !.hist = g.hist],
                                  g, cg, oc, toc)
       IN  /\ CommitSched(S)
           /\ lastOp' = Op("initialize", 0, 0, "none", S.w)
  /\ phase' = "initialized"
  /\ UNCHANGED <<flow, engine, library, isPlaying, stopped>>

Initialize == initialize /\ UNCHANGED out

Start ==
  /\ ~crashed
  /\ isPlaying' = TRUE
  /\ ~isPlaying
  /\ lastOp' = Op("other", 0, 0, "none", World)
  /\ UNCHANGED <<flow, out, engine, library, sm, procs, sinks, pending, files, crashed, queue,
                 currentTrack, timers, lastPlayedMusic, phase, stopped>>

Stop ==
  /\ ~crashed
  /\ isPlaying' = FALSE
  /\ stopped' = TRUE
  /\ LET w == IF engine = "SM" THEN SM_stop(World) ELSE ESM_stop(World)
     IN  /\ CommitWorld(w)
         /\ lastOp' = Op("stop", IF sm.clients = {} THEN 0 ELSE CHOOSE s \in sm.clients : TRUE, 0,
                         IF sm.ffmpegProcess \in Running(procs) THEN "killed" ELSE "idle", w)
  /\ UNCHANGED <<flow, out, engine, library, queue, currentTrack, timers, lastPlayedMusic, phase>>

\* A scheduler timer fires: the rest of a list played item by item, or the
\* next advance.
timerCallback ==
  /\ phase = "initialized" /\ ~crashed /\ CanSpawn
  /\ \E i \in 1 .. Len(timers) :
       LET t == timers[i]
           S == [Sched EXCEPT !.timers = RemoveAt(@, i)]
       IN  \E g \in (IF queue = <<>> /\ t.seq = <<>>
                     THEN generatePlaylist(library, lastPlayedMusic, RefillCount)
                     ELSE {Gen(<<>>, lastPlayedMusic, FALSE)}),
              cg \in GaplessAnswers, oc \in SpawnOutcomes, toc \in SpawnOutcomes :
             LET R == IF t.seq # <<>>
                      THEN playSequenceIndividually(S, t.seq, oc, toc)
                      ELSE scheduleNext(S, g, cg, oc, toc)
             IN  /\ CommitSched(R)
                 /\ lastOp' = Op(IF t.seq # <<>> THEN "playRest" ELSE "scheduleNext",
                                 0, 0, "none", R.w)
  /\ UNCHANGED <<flow, engine, library, isPlaying, phase, stopped>>

TimerFire == timerCallback /\ UNCHANGED out

\* What getCurrentWeather can come back with: a rejection, a snapshot without
\* a condition string, or a snapshot whose condition holds some keywords.
Conditions == {{}, {"clear"}, {"rain"}, {"wind", "rain"}}

WeatherReports ==
  {[rejected |-> TRUE, hasCondition |-> FALSE, condition |-> {}],
   [rejected |-> FALSE, hasCondition |-> FALSE, condition |-> {}]}
    \cup {[rejected |-> FALSE, hasCondition |-> TRUE, condition |-> c] : c \in Conditions}

\* Array.prototype.unshift with the new entry put last instead.
unshift_push(q, entry) == Append(q, entry)

\* this.queue.unshift(entry)
unshift(q, entry) == <<entry>> \o q

\* scheduleWeatherSegment, from the completion of getCurrentWeather on.  room:
\* the queue length below which the trigger is taken.
\* The body of scheduleWeatherSegment without its try / catch: an exception
\* leaves the async callback of the cron job as an unhandled rejection.
trySchedule_uncaught(q, lib, report) ==
  IF report.rejected \/ ~report.hasCondition
  THEN {[queue |-> q, raised |-> TRUE]}
  ELSE {[queue |-> unshift(q, Segment(seg)), raised |-> FALSE]
          : seg \in createWeatherSegment(lib, report.condition)}

\* The try block of scheduleWeatherSegment and its catch.  The await throws
\* when getCurrentWeather rejected; createWeatherSegment throws a TypeError at
\* condition.toLowerCase() when the snapshot has no condition, after the draw of
\* the transition and before anything is inserted.  Both are caught and logged.
trySchedule(q, lib, report) ==
  IF report.rejected \/ ~report.hasCondition
  THEN {[queue |-> q, raised |-> FALSE]}
  ELSE {[queue |-> unshift(q, Segment(seg)), raised |-> FALSE]
          : seg \in createWeatherSegment(lib, report.condition)}

scheduleWeatherSegment(room) ==
  /\ phase = "initialized" /\ ~crashed /\ Len(queue) < room
  /\ \E report \in WeatherReports : \E r \in trySchedule(queue, library, report) :
       /\ queue' = r.queue
       /\ crashed' = r.raised
       /\ lastOp' = Op(IF report.hasCondition THEN "weather" ELSE "weatherFailed",
                       0, 0, "none", World)
  /\ UNCHANGED <<flow, out, engine, library, sm, procs, sinks, pending, files,
                 currentTrack, isPlaying, timers, lastPlayedMusic, phase, stopped>>

\* new Date().getHours()
Hours == 0 .. 23

\* scheduleTimeAnnouncement with the clock reading hour.
announceTime(room, hour) ==
  /\ phase = "initialized" /\ ~crashed /\ Len(queue) < room
  /\ \E it \in createTimeSegment(library, timeOfDay(hour)) :
       queue' = unshift(queue, Single(it))
  /\ lastOp' = Op("time", 0, 0, "none", World)
  /\ UNCHANGED <<flow, engine, library, sm, procs, sinks, pending, files, crashed,
                 currentTrack, isPlaying, timers, lastPlayedMusic, phase, stopped>>

scheduleTimeAnnouncement(room) ==
  \E hour \in Hours : announceTime(room, hour) /\ UNCHANGED out

scheduleAdBreak(room) ==
  /\ phase = "initialized" /\ ~crashed /\ Len(queue) < room
  /\ \E seg \in createAdSegment(library) : queue' = unshift(queue, Segment(seg))
  /\ lastOp' = Op("ad", 0, 0, "none", World)
  /\ UNCHANGED <<flow, out, engine, library, sm, procs, sinks, pending, files, crashed,
                 currentTrack, isPlaying, timers, lastPlayedMusic, phase, stopped>>

CronWeather == scheduleWeatherSegment(MaxQueue)

CronTime == scheduleTimeAnnouncement(MaxQueue)

CronAd == scheduleAdBreak(MaxQueue)

\* addClient with a response object not seen before (the objects are numbered
\* in the order they connect).  headersSent: the caller
\* has already written the response head, so EnhancedStreamManager's writeHead
\* throws before the sink is registered.
AddClient ==
  /\ ~crashed
  /\ \E s \in Sinks : \E headersSent \in BOOLEAN :
       /\ ~sinks[s].added /\ \A r \in 1 .. s - 1 : sinks[r].added
       /\ LET w0 == [World EXCEPT !.sinks[s].added = TRUE]
              w == IF engine = "SM" THEN SM_addClient(w0, s)
                   ELSE IF headersSent THEN w0
                   ELSE ESM_addClient(w0, s)
          IN  /\ CommitWorld(w)
              /\ lastOp' = Op(IF engine = "ESM" /\ headersSent THEN "addClientThrew"
                              ELSE "addClient", s, 0, "none", w)
  /\ UNCHANGED <<flow, out, engine, library, queue, currentTrack, isPlaying, timers,
                 lastPlayedMusic, phase, stopped>>

RemoveClient ==
  /\ ~crashed
  /\ \E s \in Sinks :
       /\ sinks[s].added
       /\ LET w == IF engine = "SM" THEN SM_removeClient(World, s)
                   ELSE ESM_removeClient(World, s)
          IN  /\ CommitWorld(w)
              /\ lastOp' = Op("removeClient", s, 0, "none", w)
  /\ UNCHANGED <<flow, out, engine, library, queue, currentTrack, isPlaying, timers,
                 lastPlayedMusic, phase, stopped>>

\* The connection of a registered sink breaks: its writes throw (faulty), or
\* the response is destroyed.
SinkBreaks ==
  /\ ~crashed
  /\ \E s \in sm.clients : \E st \in {"faulty", "destroyed"} :
       /\ sinks[s].st = "open"
       /\ sinks' = [sinks EXCEPT ![s].st = st]
       /\ lastOp' = Op("other", 0, 0, "none", World)
  /\ UNCHANGED <<flow, out, engine, library, sm, procs, pending, files, crashed, queue,
                 currentTrack, isPlaying, timers, lastPlayedMusic, phase, stopped>>

\* A running pipeline ends by itself.
ProcExit ==
  /\ ~crashed
  /\ \E p \in Running(procs) :
       /\ procs' = End(procs, p, "exited")
       /\ lastOp' = Op("other", 0, 0, "none", World)
  /\ UNCHANGED <<flow, out, engine, library, sm, sinks, pending, files, crashed, queue,
                 currentTrack, isPlaying, timers, lastPlayedMusic, phase, stopped>>

\* The next event of a child process is delivered to the handlers set on it.
\* room: the number of processes below which a handler that spawns is run.
procEvent(room) ==
  /\ ~crashed
  /\ \E p \in 1 .. Len(procs) : \E toc \in SpawnOutcomes : \E code \in CloseCodes(procs[p]) :
       /\ NextEvent(procs[p]) # "none"
       /\ NextEvent(procs[p]) = "error" /\ engine = "SM"
            => Len(procs) + Cardinality(PendingWrites) < room
       /\ LET e == NextEvent(procs[p])
              w0 == [World EXCEPT !.procs[p] = IF e = "close" THEN Reaped
                                               ELSE [@ EXCEPT !.st = "errored"]]
              w == CASE e = "error" /\ engine = "SM" -> SM_onError(w0, p, toc)
                     [] e = "error" /\ engine = "ESM" -> ESM_onError(w0, p)
                     [] e = "close" /\ engine = "SM" -> SM_onClose(w0, p)
                     [] e = "close" /\ engine = "ESM" -> ESM_onClose(w0, p)
          IN  /\ CommitWorld(w)
              /\ lastOp' = Op(e, 0, p, code, w)
  /\ UNCHANGED <<flow, out, engine, library, queue, currentTrack, isPlaying, timers,
                 lastPlayedMusic, phase, stopped>>

ProcEvent == procEvent(MaxProcs)

\* fs.writeFile of a concat list completes (or rejects): playGaplessSequence resumes.
WriteDone ==
  /\ ~crashed
  /\ \E i \in PendingWrites : \E written \in BOOLEAN :
     \E oc \in SpawnOutcomes : \E oc2 \in SpawnOutcomes :
       LET w == ESM_afterWrite(World, i, written, oc, oc2)
       IN  /\ CommitWorld(w)
           /\ lastOp' = Op("writeDone", 0, 0, "none", w)
  /\ UNCHANGED <<flow, out, engine, library, queue, currentTrack, isPlaying, timers,
                 lastPlayedMusic, phase, stopped>>

\* fs.unlink of the close handler completes: the handler resumes.
UnlinkDone ==
  /\ ~crashed
  /\ \E i \in (1 .. Len(pending)) \ PendingWrites :
       LET w == ESM_afterUnlink(World, i)
       IN  /\ CommitWorld(w)
           /\ lastOp' = Op("other", 0, 0, "none", w)
  /\ UNCHANGED <<flow, out, engine, library, queue, currentTrack, isPlaying, timers,
                 lastPlayedMusic, phase, stopped>>

Next ==
  \/ Initialize
  \/ Start
  \/ Stop
  \/ TimerFire
  \/ CronWeather
  \/ CronTime
  \/ CronAd
  \/ ProcExit
  \/ ProcEvent
  \/ WriteDone
  \/ UnlinkDone

Spec == Init /\ [][Next]_vars

\* ------------------------------------------------- the engine under its callers
\* The broadcast engine called directly: playTrack and playGaplessSequence at any
\* moment and with any item, as a caller whose timers may fire at any time does.
Tracks == {LibItem("song1"), createFallbackItem}
TrackSequences == {<<LibItem("song1"), LibItem("song1")>>, <<createFallbackItem>>}

CallPlayTrack ==
  /\ ~crashed /\ CanSpawn
  /\ \E track \in Tracks : \E oc \in SpawnOutcomes : \E toc \in SpawnOutcomes :
       LET w == playTrack(World, track, oc, toc)
       IN  /\ CommitWorld(w)
           /\ lastOp' = Op("playTrack", 0, 0, "none", w)
  /\ UNCHANGED <<flow, out, engine, library, queue, currentTrack, isPlaying, timers,
                 lastPlayedMusic, phase, stopped>>

CallPlayGaplessSequence ==
  /\ ~crashed /\ CanSpawn /\ CanName /\ engine = "ESM"
  /\ \E tracks \in TrackSequences :
       LET w == ESM_playGaplessSequence(World, tracks)
       IN  /\ CommitWorld(w)
           /\ lastOp' = Op("playGaplessSequence", 0, 0, "none", w)
  /\ UNCHANGED <<flow, out, engine, library, queue, currentTrack, isPlaying, timers,
                 lastPlayedMusic, phase, stopped>>

InitEngine ==
  /\ engine \in {"SM", "ESM"}
  /\ library = EmptyLibrary
  /\ sm = [clients |-> {}, currentStream |-> 0, ffmpegProcess |-> 0,
           currentTrack |-> NullItem, currentConcatFile |-> 0]
  /\ procs = <<>>
  /\ sinks = [s \in Sinks |-> [st |-> "open", added |-> FALSE, meta |-> 0, during |-> FALSE]]
  /\ pending = <<>>
  /\ files = {}
  /\ crashed = FALSE
  /\ queue = <<>>
  /\ currentTrack = NullItem
  /\ isPlaying = TRUE
  /\ timers = <<>>
  /\ lastPlayedMusic = <<>>
  /\ phase = "constructed"
  /\ stopped = FALSE
  /\ lastOp = Op("new", 0, 0, "none", World)
  /\ flow = NoFlow
  /\ out = NoCall

NextEngine ==
  \/ CallPlayTrack
  \/ CallPlayGaplessSequence
  \/ Stop
  \/ AddClient
  \/ RemoveClient
  \/ SinkBreaks
  \/ ProcExit
  \/ ProcEvent
  \/ WriteDone
  \/ UnlinkDone

SpecEngine == InitEngine /\ [][NextEngine]_vars

\* ------------------------------------------------------ the fan-out of output
\* currentStream.pipe(client) for every client: the output of the process is one
\* readable stream with the sinks as its destinations.  Each 'data' event writes
\* the chunk to every destination; a destination whose write returns false is
\* awaited ('drain'), and the stream is paused for as long as any is.
Paused(ps, p) == ps[p].piped \cap flow.needDrain # {}

\* The client of a registered sink stops reading: from now on the sink's write
\* reports backpressure and 'drain' never comes.
SinkStalls ==
  /\ ~crashed
  /\ \E s \in sm.clients \ flow.slow :
       flow' = [flow EXCEPT !.slow = @ \cup {s}]
  /\ lastOp' = Op("other", 0, 0, "none", World)
  /\ UNCHANGED <<out, engine, library, sm, procs, sinks, pending, files, crashed, queue,
                 currentTrack, isPlaying, timers, lastPlayedMusic, phase, stopped>>

\* A flowing stream emits 'data': the chunk is written to every sink piped to
\* it.  full: the responsive sinks whose buffer this chunk fills.
Chunk ==
  /\ ~crashed
  /\ \E p \in Running(procs) :
       LET dests == procs[p].piped
       IN  /\ dests # {} /\ ~Paused(procs, p)
           /\ \A s \in dests : flow.got[s] < MaxChunks
           /\ \E full \in SUBSET (dests \ flow.slow) :
                flow' = [flow EXCEPT
                           !.got = [s \in Sinks |-> IF s \in dests THEN @[s] + 1 ELSE @[s]],
                           !.needDrain = @ \cup full \cup (dests \cap flow.slow)]
  /\ lastOp' = Op("other", 0, 0, "none", World)
  /\ UNCHANGED <<out, engine, library, sm, procs, sinks, pending, files, crashed, queue,
                 currentTrack, isPlaying, timers, lastPlayedMusic, phase, stopped>>

\* A responsive sink's buffer empties: 'drain'.
Drain ==
  /\ ~crashed
  /\ \E s \in flow.needDrain \ flow.slow :
       flow' = [flow EXCEPT !.needDrain = @ \ {s}]
  /\ lastOp' = Op("other", 0, 0, "none", World)
  /\ UNCHANGED <<out, engine, library, sm, procs, sinks, pending, files, crashed, queue,
                 currentTrack, isPlaying, timers, lastPlayedMusic, phase, stopped>>

NextFanout ==
  \/ CallPlayTrack
  \/ AddClient
  \/ SinkStalls
  \/ Chunk
  \/ Drain
  \/ ProcExit
  \/ ProcEvent

SpecFanout == InitEngine /\ [][NextFanout]_vars

\* ------------------------------------------------- the generator under its callers
\* The playlist generator called directly, over catalogs and play histories the
\* program can be in.  out records the call made last: its name (fn), its
\* argument (n, arg), what it returned (res; err when it did not return), and
\* sel, the music titles selected so far, oldest first.
Title(i) == "song" \o ToString(i)

\* A music pool larger than the history, with DJ intros and outros.
BigLibrary ==
  [EmptyLibrary EXCEPT !.music = {Title(i) : i \in 1 .. maxHistorySize + ExtraTitles},
                       !.intros = {"intro1"}, !.outros = {"outro1"}]

\* A catalog with something in most pools, and a music pool smaller than the history.
FullLibrary ==
  [music |-> {"song1", "song2"}, intros |-> {"intro1"}, outros |-> {"outro1"},
   solos |-> {"solo1"}, ids |-> {"id1"}, jingles |-> {}, ads |-> {"AD_1", "AD_2"},
   toAd |-> {"TO_AD_1"}, toWeather |-> {"TO_WEATHER_1"},
   weather |-> [b \in {"SUN", "WIND", "RAIN", "FOG", "CLOUDY"} |->
                  IF b \in {"SUN", "RAIN"} THEN {"WEATHER_" \o b} ELSE {}],
   timeOfDay |-> [b \in {"MORNING", "AFTERNOON", "EVENING", "NIGHT"} |-> {}]]

\* A catalog with a station id and nothing else: every position of a playlist
\* is one item, the station id where it was forced and the filler elsewhere.
IdLibrary == [EmptyLibrary EXCEPT !.ids = {"id1"}]

\* The history after the first k titles of the large pool were selected in order.
Played(k) == [i \in 1 .. k |-> Title(i)]

\* Catalog and play history at the start: a new generator (empty history), or
\* one with the large pool whose history is one short of full, or full.
GenInputs ==
  {<<lib, <<>>>> : lib \in {EmptyLibrary, SmallLibrary, FullLibrary, IdLibrary}}
    \cup {<<BigLibrary, Played(k)>> : k \in {maxHistorySize - 1, maxHistorySize}}

\* The music titles among the items a builder returned, in order.
Selected(lib, items) ==
  LET isMusic(it) == it.path = "file" /\ it.title \in lib.music
  IN  [i \in 1 .. Len(SelectSeq(items, isMusic)) |-> SelectSeq(items, isMusic)[i].title]

Called(fn, n, arg, g, built) ==
  [fn |-> fn, n |-> n, arg |-> arg, res |-> g.items, err |-> g.err, built |-> built,
   sel |-> out.sel \o Selected(library, g.items)]

SelectionsLeft == maxHistorySize + MaxSelections - Len(out.sel)

\* Engine and scheduler as constructed, not started: the generator is called
\* on its own.
Unstarted ==
  /\ engine = "ESM"
  /\ sm = [clients |-> {}, currentStream |-> 0, ffmpegProcess |-> 0,
           currentTrack |-> NullItem, currentConcatFile |-> 0]
  /\ procs = <<>>
  /\ sinks = [s \in Sinks |-> [st |-> "open", added |-> FALSE, meta |-> 0, during |-> FALSE]]
  /\ pending = <<>>
  /\ files = {}
  /\ crashed = FALSE
  /\ queue = <<>>
  /\ currentTrack = NullItem
  /\ isPlaying = FALSE
  /\ timers = <<>>
  /\ phase = "constructed"
  /\ stopped = FALSE
  /\ lastOp = Op("new", 0, 0, "none", World)
  /\ flow = NoFlow

NotCalled ==
  [fn |-> "none", n |-> 0, arg |-> <<>>, res |-> <<>>, err |-> FALSE,
   built |-> <<>>, sel |-> lastPlayedMusic]

InitGen ==
  /\ \E in \in GenInputs : library = in[1] /\ lastPlayedMusic = in[2]
  /\ Unstarted
  /\ out = NotCalled

CallCreateMusic ==
  /\ SelectionsLeft >= 1
  /\ \E g \in createMusic(library, lastPlayedMusic) :
       /\ lastPlayedMusic' = g.hist
       /\ out' = Called("createMusic", 0, <<>>, g, <<>>)
  /\ UNCHANGED <<flow, engine, library, sm, procs, sinks, pending, files, crashed, queue,
                 currentTrack, isPlaying, timers, phase, stopped, lastOp>>

CallCreateMusicWithIntro ==
  /\ SelectionsLeft >= 1
  /\ \E g \in createMusicWithIntro(library, lastPlayedMusic) :
     \E now \in Clock : \E dur \in DurationsOf(g.items) :
       /\ lastPlayedMusic' = g.hist
       /\ out' = Called("createMusicWithIntro", 0, <<>>, g, Built(library, g.items, dur, now))
  /\ UNCHANGED <<flow, engine, library, sm, procs, sinks, pending, files, crashed, queue,
                 currentTrack, isPlaying, timers, phase, stopped, lastOp>>

CallCreateMusicWithOutro ==
  /\ SelectionsLeft >= 1
  /\ \E g \in createMusicWithOutro(library, lastPlayedMusic) :
     \E now \in Clock : \E dur \in DurationsOf(g.items) :
       /\ lastPlayedMusic' = g.hist
       /\ out' = Called("createMusicWithOutro", 0, <<>>, g, Built(library, g.items, dur, now))
  /\ UNCHANGED <<flow, engine, library, sm, procs, sinks, pending, files, crashed, queue,
                 currentTrack, isPlaying, timers, phase, stopped, lastOp>>

\* generatePlaylist(n).  Long playlists are generated with the catalogs without
\* music, where every builder has one outcome.
CallGeneratePlaylist ==
  /\ \E n \in 0 .. (IF library.music = {} THEN LongCount ELSE MaxCount) :
       /\ SelectionsLeft >= n
       /\ \E g \in generatePlaylist(library, lastPlayedMusic, n) :
            /\ lastPlayedMusic' = g.hist
            /\ out' = Called("generatePlaylist", n, <<>>, g, <<>>)
  /\ UNCHANGED <<flow, engine, library, sm, procs, sinks, pending, files, crashed, queue,
                 currentTrack, isPlaying, timers, phase, stopped, lastOp>>

NextGen ==
  \/ CallCreateMusic
  \/ CallCreateMusicWithIntro
  \/ CallCreateMusicWithOutro
  \/ CallGeneratePlaylist

SpecGen == InitGen /\ [][NextGen]_vars

\* ------------------------------------------------ the segment builders, one call
\* The builders of lists.  createAdSegment, createWeatherSegment and
\* mapWeatherToType neither read nor write the play history: each is applied
\* once to a catalog and an input.
InitSegments ==
  /\ library \in {EmptyLibrary, SmallLibrary, FullLibrary}
  /\ lastPlayedMusic = <<>>
  /\ Unstarted
  /\ out = NotCalled

CallCreateAdSegment ==
  /\ out.fn = "none"
  /\ \E seg \in createAdSegment(library) :
     \E now \in Clock : \E dur \in DurationsOf(seg) :
       out' = Called("createAdSegment", 0, <<>>, Gen(seg, lastPlayedMusic, FALSE),
                     Built(library, seg, dur, now))
  /\ UNCHANGED <<flow, engine, library, sm, procs, sinks, pending, files, crashed, queue,
                 currentTrack, isPlaying, timers, lastPlayedMusic, phase, stopped, lastOp>>

\* createWeatherSegment(weatherData) with weatherData.condition a string.
CallCreateWeatherSegment ==
  /\ out.fn = "none"
  /\ \E str \in ConditionStrings :
     \E seg \in createWeatherSegment(library, KeywordsIn(str)) :
     \E now \in Clock : \E dur \in DurationsOf(seg) :
       out' = Called("createWeatherSegment", 0, str, Gen(seg, lastPlayedMusic, FALSE),
                     Built(library, seg, dur, now))
  /\ UNCHANGED <<flow, engine, library, sm, procs, sinks, pending, files, crashed, queue,
                 currentTrack, isPlaying, timers, lastPlayedMusic, phase, stopped, lastOp>>

\* mapWeatherToType(condition) with a string; res is the bucket.
CallMapWeatherToType ==
  /\ out.fn = "none"
  /\ \E str \in ConditionStrings :
       out' = [Called("mapWeatherToType", 0, str, Gen(<<>>, lastPlayedMusic, FALSE), <<>>)
                 EXCEPT !.res = mapWeatherToType(KeywordsIn(str))]
  /\ UNCHANGED <<flow, engine, library, sm, procs, sinks, pending, files, crashed, queue,
                 currentTrack, isPlaying, timers, lastPlayedMusic, phase, stopped, lastOp>>

NextSegments ==
  \/ CallCreateAdSegment
  \/ CallCreateWeatherSegment
  \/ CallMapWeatherToType
  \/ CallCreateMusicWithIntro
  \/ CallCreateMusicWithOutro

SpecSegments == InitSegments /\ [][NextSegments]_vars

\* ------------------------------------------------- the queue under its triggers
\* The scheduler with a stocked catalog and the cron triggers taken while
\* entries are waiting in the queue.
LateWeather == scheduleWeatherSegment(LongQueue)

LateTime == scheduleTimeAnnouncement(LongQueue)

LateAd == scheduleAdBreak(LongQueue)

\* One title for music, ads and the transition into the weather.
QueueLibrary == [SmallLibrary EXCEPT !.toWeather = {"TO_WEATHER_1"}]

InitQueue ==
  /\ library = QueueLibrary
  /\ lastPlayedMusic = <<>>
  /\ Unstarted
  /\ out = NoCall

NextQueue ==
  \/ Initialize
  \/ TimerFire
  \/ LateWeather
  \/ LateTime
  \/ LateAd

SpecQueue == InitQueue /\ [][NextQueue]_vars

\* --------------------------------------------- segments on their way to the air
\* The scheduler with a catalog whose playlists hold DJ intro and outro pairs
\* and whose ad breaks have a transition, and the cron triggers taken while
\* entries are waiting.
AirLibrary ==
  [EmptyLibrary EXCEPT !.music = {"song1"}, !.intros = {"intro1"}, !.outros = {"outro1"},
                       !.ads = {"AD_1"}, !.toAd = {"TO_AD_1"}]

InitAir ==
  /\ library = AirLibrary
  /\ lastPlayedMusic = <<>>
  /\ Unstarted
  /\ out = NoCall

NextAir ==
  \/ Initialize
  \/ TimerFire
  \/ LateWeather
  \/ LateTime
  \/ LateAd

SpecAir == InitAir /\ [][NextAir]_vars

\* ------------------------------------------------------- the fallback tone
\* StreamManager.playFallbackAudio(track) reads track.duration.  NoDuration: the
\* item has no duration property (undefined).
NoDuration == -1

\* The durations an item can carry: what analyzeDuration returns (a whole number
\* of milliseconds, 0 for a file the estimate finds empty), the filler's 5000.
ToneDurations == (0 .. MaxToneMs) \cup {1000, fallbackDuration, defaultToneDuration}

\* track.duration || 30000: the default for every falsy value.
toneDuration(duration) ==
  IF duration = NoDuration \/ duration = 0 THEN defaultToneDuration ELSE duration

\* Math.floor(duration * sampleRate / 1000)
toneSamples(duration) == (toneDuration(duration) * sampleRate) \div 1000

\* Buffer.alloc(samples * 4): two channels of 16 bits per sample.
toneBytes(duration) == toneSamples(duration) * 4

\* playFallbackAudio called with an item of a given duration; out keeps the
\* duration and the payload written to the encoder.
CallPlayFallbackAudio ==
  /\ ~crashed /\ CanSpawn /\ engine = "SM"
  /\ \E track \in Tracks : \E d \in ToneDurations \cup {NoDuration} : \E toc \in SpawnOutcomes :
       LET w == SM_playFallbackAudio(World, track, toc)
       IN  /\ CommitWorld(w)
           /\ lastOp' = Op("playFallbackAudio", 0, 0, "none", w)
           /\ out' = [fn |-> "playFallbackAudio", duration |-> d,
                      samples |-> toneSamples(d), bytes |-> toneBytes(d),
                      written |-> toc # "throw"]
  /\ UNCHANGED <<flow, engine, library, queue, currentTrack, isPlaying, timers,
                 lastPlayedMusic, phase, stopped>>

InitTone == InitEngine /\ engine = "SM"

NextTone ==
  \/ CallPlayFallbackAudio
  \/ AddClient
  \/ ProcExit
  \/ ProcEvent

SpecTone == InitTone /\ [][NextTone]_vars

\* ------------------------------------------------- the announcement of the time
\* The scheduler with the time trigger taken once, at any hour of the day, and
\* the hour read by the handler kept in out together with the bucket it passed
\* to createTimeSegment.
\* One announcement for each bucket but NIGHT, which has none.
TimeLibrary ==
  [QueueLibrary EXCEPT !.timeOfDay = [b \in {"MORNING", "AFTERNOON", "EVENING", "NIGHT"} |->
                                         IF b = "NIGHT" THEN {} ELSE {"TIME_" \o b}]]

InitHour ==
  /\ library = TimeLibrary
  /\ lastPlayedMusic = <<>>
  /\ Unstarted
  /\ out = NoCall

TimeAt ==
  /\ out.fn = "none"
  /\ \E hour \in Hours :
       /\ announceTime(LongQueue, hour)
       /\ out' = [fn |-> "scheduleTimeAnnouncement", hour |-> hour,
                  timeOfDay |-> timeOfDay(hour)]

NextHour ==
  \/ Initialize
  \/ TimerFire
  \/ TimeAt
  \/ CronAd

SpecHour == InitHour /\ [][NextHour]_vars

\* ------------------------------------------------------- the metadata record
\* sendICYMetadata on the bytes.  A title or artist is read through its UTF-8
\* encoding only: it is given by the number of bytes it encodes to, and its
\* bytes are text (never 0).
TextBytes(n) == [i \in 1 .. n |-> 1 + (i % 200)]

\* Titles and artists as the tags of a file or its name give them: short ones,
\* and titles at the length where the record's block count reaches 255 and 256.
TitleBytes == (0 .. MaxTitleBytes) \cup {4065, 4066}
ArtistBytes == {0, 5}

\* `StreamTitle='${artist ? `${artist} - ` : ''}${title}';` as bytes: 13 for
\* StreamTitle=', the artist and 3 for " - " when there is an artist, the title
\* ('Unknown', 7 bytes, for an empty one), 2 for ';
metadataBuffer(titleBytes, artistBytes) ==
  TextBytes(13) \o (IF artistBytes > 0 THEN TextBytes(artistBytes + 3) ELSE <<>>)
    \o TextBytes(IF titleBytes = 0 THEN 7 ELSE titleBytes) \o TextBytes(2)

\* Math.ceil(metadataBuffer.length / 16)
metadataLength(buf) == (Len(buf) + 15) \div 16

\* Buffer.alloc(metadataLength * 16) is zero-filled; copy() writes the text at
\* its start.
paddedMetadata(buf) == buf \o [i \in 1 .. metadataLength(buf) * 16 - Len(buf) |-> 0]

\* Buffer.from([metadataLength]) stores the value in one byte: its low 8 bits.
icyPacket(buf) == <<metadataLength(buf) % 256>> \o paddedMetadata(buf)

\* sendICYMetadata(client) while a track is current, for a title and artist of
\* the given sizes; out keeps the text and the record written to the client.
CallSendICYMetadata ==
  /\ ~crashed /\ engine = "ESM" /\ out.fn = "none"
  /\ sm.currentTrack # NullItem
  /\ \E s \in sm.clients : \E t \in TitleBytes : \E a \in ArtistBytes :
       LET w == sendICYMetadata(World, s)
           buf == metadataBuffer(t, a)
       IN  /\ CommitWorld(w)
           /\ lastOp' = Op("sendICYMetadata", s, 0, "none", w)
           /\ out' = [fn |-> "sendICYMetadata", text |-> buf, packet |-> icyPacket(buf)]
  /\ UNCHANGED <<flow, engine, library, queue, currentTrack, isPlaying, timers,
                 lastPlayedMusic, phase, stopped>>

InitIcy == InitEngine /\ engine = "ESM"

NextIcy ==
  \/ AddClient
  \/ CallPlayTrack
  \/ CallSendICYMetadata

SpecIcy == InitIcy /\ [][NextIcy]_vars

\* ------------------------------------------------------------- start times
\* The startTime field of the items the scheduler holds.  The items of the
\* scheduler model carry title and path; here out keeps, beside the queue, the
\* startTime of every member of every waiting entry (starts), that of the
\* current item (curStart), the clock (now) and, as history, the reading of
\* the clock when the current item was taken from the queue (dequeuedAt).
\* Every item of a playlist without DJ pairs is stamped by its builder with
\* Date.now() (createMusic, createDJSolo, createJingle, createStationID,
\* createFallbackItem), and so is the item createTimeSegment returns.
Stamps(q, t) == [i \in 1 .. Len(q) |-> [k \in 1 .. Len(q[i].items) |-> t]]

NoStamps ==
  [fn |-> "clock", now |-> 1, starts |-> <<>>, curStart |-> NoTime, dequeuedAt |-> NoTime]

\* scheduleNext on the start times: the entry taken is the head of the queue,
\* or of the playlist generated at this moment when the queue was empty.
StampNext ==
  IF crashed' \/ currentTrack' = NullItem THEN out
  ELSE IF queue = <<>>
  THEN [out EXCEPT !.starts = Stamps(queue', out.now), !.curStart = out.now,
                   !.dequeuedAt = out.now]
  ELSE [out EXCEPT !.starts = Tail(@), !.curStart = Head(out.starts)[1],
                   !.dequeuedAt = out.now]

StampedInitialize ==
  /\ initialize
  /\ out' = IF crashed' \/ currentTrack' = NullItem THEN out
            ELSE [out EXCEPT !.starts = Stamps(queue', out.now), !.curStart = out.now,
                             !.dequeuedAt = out.now]

StampedTimerFire ==
  /\ timerCallback
  /\ out' = IF lastOp'.op = "scheduleNext" THEN StampNext ELSE out

StampedTime ==
  /\ \E hour \in Hours : announceTime(MaxQueue, hour)
  /\ out' = [out EXCEPT !.starts = <<<<out.now>>>> \o @]

\* Time passes.
Tick ==
  /\ out.now < MaxNow
  /\ out' = [out EXCEPT !.now = @ + 1]
  /\ UNCHANGED <<flow, engine, library, sm, procs, sinks, pending, files, crashed, queue,
                 currentTrack, isPlaying, timers, lastPlayedMusic, phase, stopped, lastOp>>

\* getCurrentTrack().startTime: this.currentTrack?.startTime || Date.now()
getCurrentTrackStartTime ==
  IF currentTrack = NullItem \/ out.curStart = NoTime \/ out.curStart = 0
  THEN out.now ELSE out.curStart

InitStart ==
  /\ library = TimeLibrary
  /\ lastPlayedMusic = <<>>
  /\ Unstarted
  /\ out = NoStamps

NextStart ==
  \/ StampedInitialize
  \/ StampedTimerFire
  \/ StampedTime
  \/ Tick

SpecStart == InitStart /\ [][NextStart]_vars

\* ------------------------------------------------------- a late error event
\* The engine with play calls made while the 'error' event of an earlier
\* pipeline is still to be delivered.  The handler of the StreamManager spawns
\* the tone, so the event is delivered with room for one process more.
LateProcEvent == procEvent(MaxProcs + 1)

InitStale == InitEngine

NextStale ==
  \/ CallPlayTrack
  \/ ProcExit
  \/ LateProcEvent

SpecStale == InitStale /\ [][NextStale]_vars

\* ------------------------------------------------------- the /stream route
\* RadioServer: the scheduler and the EnhancedStreamManager it is constructed
\* with, and the GET /stream requests that arrive once start() has initialized
\* the scheduler and the server listens.  out keeps, of the response objects,
\* those whose route handler has run (handled), those whose request has a
\* 'close' listener (listening) and those whose request has closed (closed).
NoRequests == [fn |-> "server", handled |-> {}, listening |-> {}, closed |-> {}]

\* response.writeHead on a response whose head has already been written throws
\* ERR_HTTP_HEADERS_SENT.  addClient of the EnhancedStreamManager starts with
\* writeHead: with headersSent it leaves by the exception before clients.add.
addClientTo(w, s, headersSent) ==
  IF headersSent THEN [w |-> w, threw |-> TRUE]
  ELSE [w |-> ESM_addClient(w, s), threw |-> FALSE]

\* The handler of GET /stream for a new request: res.writeHead(200, headers),
\* this.streamManager.addClient(res), then req.on('close', ...).  An exception
\* leaves the handler before the listener is set; Express answers it by
\* destroying the connection, the head being sent already.
GetStream ==
  /\ ~crashed /\ engine = "ESM" /\ phase = "initialized"
  /\ \E s \in Sinks :
       /\ ~sinks[s].added /\ \A r \in 1 .. s - 1 : sinks[r].added
       /\ LET headersSent == TRUE
              r == addClientTo([World EXCEPT !.sinks[s].added = TRUE], s, headersSent)
          IN  /\ CommitWorld(r.w)
              /\ out' = [out EXCEPT !.handled = @ \cup {s},
                                    !.listening = IF r.threw THEN @ ELSE @ \cup {s}]
              /\ lastOp' = Op(IF r.threw THEN "addClientThrew" ELSE "addClient",
                              s, 0, "none", r.w)
  /\ UNCHANGED <<flow, engine, library, queue, currentTrack, isPlaying, timers,
                 lastPlayedMusic, phase, stopped>>

\* The 'close' event of a request: the listener, if one was set, calls
\* removeClient(res).
ReqClose ==
  /\ ~crashed
  /\ \E s \in out.handled \ out.closed :
       LET w == IF s \in out.listening THEN ESM_removeClient(World, s) ELSE World
       IN  /\ CommitWorld(w)
           /\ out' = [out EXCEPT !.closed = @ \cup {s}]
           /\ lastOp' = Op(IF s \in out.listening THEN "removeClient" ELSE "reqClose",
                           s, 0, "none", w)
  /\ UNCHANGED <<flow, engine, library, queue, currentTrack, isPlaying, timers,
                 lastPlayedMusic, phase, stopped>>

InitServer ==
  /\ library = SmallLibrary
  /\ lastPlayedMusic = <<>>
  /\ Unstarted
  /\ out = NoRequests

NextServer ==
  \/ Initialize
  \/ Start
  \/ TimerFire
  \/ GetStream
  \/ ReqClose
  \/ ProcExit
  \/ ProcEvent

SpecServer == InitServer /\ [][NextServer]_vars

\* ------------------------------------------------------------------ claims
\* lastOp names the handler that ran last: op is its name, sink the response
\* object it was called with (for stop: one of the sinks it dropped, 0 if there
\* was none), code the exit code a 'close' carried (for stop: whether a running
\* pipeline was killed), proc the kind of the process whose event was handled,
\* failed the sinks whose write threw, played the item handed to playTrack and
\* poc the outcome of spawning its pipeline.

\* C1: at most one transcoding process is running (started, neither killed nor
\* exited) in every reachable state; a new one is started only after the
\* previous one has been killed.
C1_OnePipeline == Cardinality(Running(procs)) <= 1

\* C2: once RadioScheduler.stop() has been called, no timer callback pops a
\* queue entry and hands an item to the stream manager any more.
C2_StoppedIsTerminal ==
  stopped => ~(lastOp.op \in {"scheduleNext", "playRest"} /\ lastOp.played # NullItem)

\* C3: right after RadioScheduler.stop() with a StreamManager engine no pipeline
\* process is running, ffmpegProcess and currentStream are null, the listener
\* set is empty and isPlaying is false.
C3_StopClearsEngine ==
  lastOp.op = "stop" /\ engine = "SM" =>
    /\ Running(procs) = {}
    /\ sm.ffmpegProcess = 0
    /\ sm.currentStream = 0
    /\ sm.clients = {}
    /\ ~isPlaying

\* stop() was called on a StreamManager that had a running pipeline and a
\* registered sink.
C3_Witness ==
  /\ lastOp.op = "stop" /\ engine = "SM"
  /\ lastOp.code = "killed" /\ lastOp.sink # 0
  /\ \E p \in 1 .. Len(procs) : procs[p].st = "killed"
  /\ sm.clients = {} /\ ~isPlaying

\* C4: after playTrack(item) with a filler item (path null) or with a spawn that
\* failed at once, the engine's current stream is a running tone pipeline piped
\* to every registered, non-destroyed sink (unless the tone pipeline itself
\* could not be started).
C4_FallbackToneOnFailure ==
  /\ lastOp.op = "playTrack"
  /\ lastOp.played.path = "null" \/ lastOp.poc = "throw"
  /\ ~crashed
  /\ \A p \in 1 .. Len(procs) : procs[p].kind = "tone" => procs[p].st \notin {"failed", "errored"}
  => \E p \in Running(procs) :
       /\ procs[p].kind = "tone"
       /\ sm.currentStream = p
       /\ LiveClients(World) \subseteq procs[p].piped

\* C5: when the 'close' of a track or segment pipeline that exited by itself
\* with a non-zero code has been handled, a pipeline is running: the engine has
\* started fallback audio.
C5_RuntimeFailureFallsBack ==
  /\ lastOp.op = "close" /\ lastOp.code = "nonzero"
  /\ lastOp.proc \in {"track", "enhanced"}
  /\ ~crashed
  => Running(procs) # {}

\* C6: after addClient(sink) with a pipeline running, the sink is attached to
\* the output of a running pipeline.  (addClient starts and ends no process, so
\* the pipelines running after the call are those running when it was made.)
C6_AddClientAttaches ==
  lastOp.op = "addClient" /\ Running(procs) # {} =>
    \E p \in Running(procs) : lastOp.sink \in procs[p].piped

\* C7: addClient and removeClient leave the engine's process, current stream,
\* current track and list file as they were, start and end no process, and
\* change neither the membership nor the attachments of any other sink.
C7_ListenerFrame ==
  [][lastOp'.op \in {"addClient", "addClientThrew", "removeClient"} =>
       /\ sm'.ffmpegProcess = sm.ffmpegProcess
       /\ sm'.currentStream = sm.currentStream
       /\ sm'.currentTrack = sm.currentTrack
       /\ sm'.currentConcatFile = sm.currentConcatFile
       /\ sm'.clients \ {lastOp'.sink} = sm.clients \ {lastOp'.sink}
       /\ Len(procs') = Len(procs)
       /\ \A p \in 1 .. Len(procs) :
            /\ procs'[p].st = procs[p].st
            /\ procs'[p].kind = procs[p].kind
            /\ procs'[p].piped \ {lastOp'.sink} = procs[p].piped \ {lastOp'.sink}
       /\ \A s \in Sinks \ {lastOp'.sink} : sinks'[s] = sinks[s]
       /\ pending' = pending /\ files' = files]_vars

\* A second sink was added while the first was attached to the running
\* pipeline, and is attached to it as well.
C7_Witness ==
  /\ lastOp.op = "addClient" /\ lastOp.sink = 2
  /\ \E p \in Running(procs) : sm.currentStream = p /\ procs[p].piped = {1, 2}

\* C8: a sink added to an EnhancedStreamManager while a track or segment is
\* current has received exactly one metadata record for it (and a sink added
\* while nothing is current has received none).
C8_OneRecordAtAttach ==
  engine = "ESM" =>
    /\ \A s \in sm.clients :
         sinks[s].st = "open" /\ sinks[s].during => sinks[s].meta = 1
    /\ lastOp.op = "addClient" /\ sm.currentTrack = NullItem => sinks[lastOp.sink].meta = 0

\* C9: after EnhancedStreamManager.playTrack(item), for an item with a path
\* whose pipeline started or a filler item, the current stream is a running
\* pipeline piped to every registered, non-destroyed sink, and each of these
\* that accepts writes has received exactly one metadata record for the item.
C9_PlayTrackReachesEverySink ==
  /\ lastOp.op = "playTrack" /\ engine = "ESM"
  /\ lastOp.poc \in {"ok", "none"}
  /\ ~crashed
  => \E p \in Running(procs) :
       /\ sm.currentStream = p
       /\ \A s \in LiveClients(World) :
            /\ s \in procs[p].piped
            /\ sinks[s].st = "open" => sinks[s].meta = 1

\* C10: a sink whose write failed in the handler that ran last is no longer in
\* the listener set.
C10_FailedWriteDropsSink == lastOp.failed \cap sm.clients = {}

\* C11: a sink that stops accepting data does not stall the delivery of pipeline
\* output to the other registered sinks.  When the only sinks a running
\* pipeline's stream is waiting on are unresponsive ones (so the wait has no
\* end), no responsive sink is attached to that stream.
C11_UnresponsiveSinkStallsNoOne ==
  \A p \in Running(procs) :
    LET waiting == procs[p].piped \cap flow.needDrain
    IN  (waiting # {} /\ waiting \subseteq flow.slow) => procs[p].piped \subseteq flow.slow

\* C12: whenever generatePlaylist(n) returns, the list holds at least n items
\* and each of them is an item of the catalog or the filler item, never null.
C12_PlaylistFilled ==
  (out.fn = "generatePlaylist" /\ ~out.err) =>
    /\ Len(out.res) >= out.n
    /\ \A i \in 1 .. Len(out.res) :
         /\ out.res[i] # NullItem
         /\ out.res[i] = createFallbackItem \/ out.res[i].path = "file"

\* A playlist longer than its count (a DJ sequence was spread into it) with a
\* filler item in it.
C12_Witness ==
  /\ out.fn = "generatePlaylist" /\ ~out.err
  /\ out.n >= 2 /\ Len(out.res) > out.n
  /\ \E i \in 1 .. Len(out.res) : out.res[i] = createFallbackItem

\* C13: anti-repeat.  With a music pool of at least maxHistorySize titles, no
\* title occurs twice within any run of up to maxHistorySize consecutive music
\* selections, whichever builders made them.
C13_AntiRepeat ==
  Cardinality(library.music) >= maxHistorySize =>
    \A i \in 1 .. Len(out.sel) : \A j \in 1 .. Len(out.sel) :
      (i < j /\ j - i < maxHistorySize) => out.sel[i] # out.sel[j]

\* The history has been full, its oldest title was evicted and then selected
\* again: the same title at both ends of maxHistorySize + 2 selections.
C13_Witness ==
  /\ Cardinality(library.music) >= maxHistorySize
  /\ Len(out.sel) = maxHistorySize + 2
  /\ out.sel[1] = out.sel[Len(out.sel)]

\* C14: createMusic always terminates: every call returns one item (the filler
\* item when every title of the music pool is in the play history).
C14_CreateMusicReturns ==
  out.fn = "createMusic" =>
    /\ ~out.err
    /\ Len(out.res) = 1
    /\ out.res[1] = createFallbackItem \/ out.res[1].title \in library.music

\* C15: gapless invariant.  In every list of two or more members returned by
\* createGaplessSequence (music-with-intro/outro, weather and ad segments) each
\* member starts when the one before it ends, the first member has
\* isGaplessStart, the last has isGaplessEnd and every member has isGapless.
C15_GaplessChain ==
  (/\ out.fn \in {"createMusicWithIntro", "createMusicWithOutro",
                  "createWeatherSegment", "createAdSegment"}
   /\ Len(out.built) >= 2) =>
    /\ \A i \in 1 .. Len(out.built) - 1 :
         out.built[i + 1].startTime = out.built[i].startTime + out.built[i].duration
    /\ out.built[1].isGaplessStart
    /\ out.built[Len(out.built)].isGaplessEnd
    /\ \A i \in 1 .. Len(out.built) : out.built[i].isGapless

\* An ad block of three members in which the same ad was drawn twice, with
\* durations that are not zero.
C15_Witness ==
  /\ out.fn = "createAdSegment" /\ Len(out.built) = 3
  /\ out.built[2].title = out.built[3].title
  /\ out.built[1].duration > 0 /\ out.built[2].duration > 0
  /\ out.built[3].startTime > out.built[2].startTime

\* C16: mapWeatherToType is total on condition strings and follows the table,
\* read without regard to case and in this order: contains sun or clear -> SUN;
\* else contains wind -> WIND; else contains rain or shower -> RAIN; else
\* contains fog or mist -> FOG; else -> CLOUDY.  The result is one of the five
\* buckets.
C16_WeatherTable ==
  out.fn = "mapWeatherToType" =>
    LET sameLetter(a, b) ==
          a = b \/ \E i \in 1 .. Len(UpperCase) : {a, b} = {UpperCase[i], LowerCase[i]}
        has(k) ==
          \E i \in 0 .. Len(out.arg) - Len(Spelling[k]) :
            \A j \in 1 .. Len(Spelling[k]) : sameLetter(out.arg[i + j], Spelling[k][j])
    IN  /\ out.res \in {"SUN", "WIND", "RAIN", "FOG", "CLOUDY"}
        /\ out.res = IF has("sun") \/ has("clear") THEN "SUN"
                     ELSE IF has("wind") THEN "WIND"
                     ELSE IF has("rain") \/ has("shower") THEN "RAIN"
                     ELSE IF has("fog") \/ has("mist") THEN "FOG"
                     ELSE "CLOUDY"

\* "WINDRain": a keyword in upper case ahead of one of lower priority.
C16_Witness ==
  /\ out.fn = "mapWeatherToType"
  /\ out.arg = <<"W", "I", "N", "D", "R", "a", "i", "n">>
  /\ out.res = "WIND"

\* C17: createAdSegment and createWeatherSegment return (no exception) a list
\* that is never empty; when every pool they draw from is empty (ads and TO_AD;
\* the weather bucket and TO_WEATHER) the list is exactly one filler item, with
\* path null and duration 5000.
C17_SegmentsNeverEmpty ==
  out.fn \in {"createAdSegment", "createWeatherSegment"} =>
    LET drawn == IF out.fn = "createAdSegment" THEN library.ads \cup library.toAd
                 ELSE library.weather[mapWeatherToType(KeywordsIn(out.arg))]
                        \cup library.toWeather
    IN  /\ ~out.err
        /\ Len(out.built) >= 1
        /\ drawn = {} =>
             /\ Len(out.built) = 1
             /\ out.built[1].title = "Radio Station"
             /\ out.built[1].path = "null"
             /\ out.built[1].duration = 5000

\* A weather segment built from a catalog with ads but nothing for the weather.
C17_Witness ==
  /\ out.fn = "createWeatherSegment"
  /\ library.ads # {} /\ library.toWeather = {}
  /\ Len(out.built) = 1 /\ out.built[1].path = "null"

\* C18: an entry inserted by scheduleWeatherSegment, scheduleTimeAnnouncement or
\* scheduleAdBreak is placed at the front of the queue with the entries already
\* queued behind it in their order; no handler but these and scheduleNext
\* changes the queue; and scheduleNext takes the entry at the front.  So the
\* inserted entry is the one the next pop takes unless another trigger fires
\* first.
C18_InsertedFirstPoppedNext ==
  [][LET inserts == lastOp'.op \in {"weather", "time", "ad"}
         pops == lastOp'.op \in {"scheduleNext", "initialize"}
     IN  /\ inserts => /\ queue' # <<>> /\ Tail(queue') = queue
                       /\ Head(queue').seg = (lastOp'.op # "time")
         /\ (lastOp'.op = "scheduleNext" /\ queue # <<>>) =>
               /\ queue' = Tail(queue)
               /\ currentTrack' = Head(queue).items[1]
         /\ (~inserts /\ ~pops) => queue' = queue]_vars

\* A weather segment inserted ahead of two waiting entries has just been taken
\* by scheduleNext, the two still waiting.
C18_Witness ==
  /\ lastOp.op = "scheduleNext"
  /\ currentTrack.title = "TO_WEATHER_1"
  /\ Len(queue) = 2 /\ queue[1] # queue[2]

\* C19: getUpcoming returns one record for each of the first 5 queue entries
\* (fewer when the queue is shorter), in queue order, and every record carries
\* the title, type and duration of an item: for an entry that is a list, those
\* of its first member; no field is undefined.
C19_UpcomingDescribesItems ==
  LET records == getUpcoming(queue)
  IN  /\ Len(records) = (IF Len(queue) < 5 THEN Len(queue) ELSE 5)
      /\ \A i \in 1 .. Len(records) :
           /\ records[i].title = queue[i].items[1].title
           /\ records[i].type # Undefined
           /\ records[i].duration # Undefined

\* C20: the scheduler loop is never halted by a failure.  As long as stop() has
\* not been called, every queue advance leaves the scheduler running with a
\* timer pending, so that another advance follows.
C20_LoopStaysAlive ==
  (phase = "initialized" /\ ~stopped) => (~crashed /\ timers # <<>>)

\* C21: scheduleTimeAnnouncement takes the bucket of the current hour h of
\* 0..23 as 0-5 NIGHT, 6-11 MORNING, 12-17 AFTERNOON, 18-21 EVENING, 22-23
\* NIGHT, and puts what createTimeSegment returns for that bucket at the front of
\* the queue, ahead of the entries that were waiting.
C21_HourBucketInsertedFirst ==
  [][out.fn = "none" /\ out'.fn = "scheduleTimeAnnouncement" =>
       LET h == out'.hour
           bucket == CASE h \in 0 .. 5 -> "NIGHT"
                       [] h \in 6 .. 11 -> "MORNING"
                       [] h \in 12 .. 17 -> "AFTERNOON"
                       [] h \in 18 .. 21 -> "EVENING"
                       [] h \in 22 .. 23 -> "NIGHT"
       IN  /\ h \in 0 .. 23
           /\ out'.timeOfDay = bucket
           /\ queue' # <<>>
           /\ Tail(queue') = queue
           /\ ~Head(queue').seg
           /\ Head(queue').items[1] \in createTimeSegment(library, bucket)]_vars

C21_Witness ==
  /\ out.fn = "scheduleTimeAnnouncement" /\ out.hour = 18
  /\ Len(queue) >= 2
  /\ Head(queue) = Single(LibItem("TIME_EVENING"))

\* C22: StreamManager.playFallbackAudio for an item of duration D milliseconds
\* writes floor(D * 44100 / 1000) stereo 16-bit samples (4 bytes each), a play
\* length within the fixed tolerance (50 ms) of D, for every D; the 30000 ms
\* default is used only for an item that carries no duration.
C22_ToneLengthIsDuration ==
  (out.fn = "playFallbackAudio" /\ out.written) =>
    LET D == IF out.duration = NoDuration THEN 30000 ELSE out.duration
        playLength == (out.samples * 1000) \div 44100
    IN  /\ out.samples = (D * 44100) \div 1000
        /\ out.bytes = 4 * out.samples
        /\ playLength <= D + 50 /\ D <= playLength + 50

\* C23: a concat list file written by playGaplessSequence is deleted when the
\* pipeline that reads it exits, whatever the outcome: it exists for as long
\* as its pipeline runs, and it does not outlive the pipeline.  A file that
\* exists therefore always has something that will delete it: a pipeline started
\* on it whose 'close' is still to be handled, the engine's currentConcatFile
\* field naming it, or an unlink of it already under way; this holds as well
\* when a later play call came before the 'close' of the earlier pipeline and
\* when the pipeline could not be created after the file was written.
C23_ListFileLivesWithItsPipeline ==
  /\ \A p \in Running(procs) : procs[p].file # 0 => procs[p].file \in files
  /\ \A f \in files :
       \/ \E p \in 1 .. Len(procs) : procs[p].file = f
       \/ sm.currentConcatFile = f
       \/ \E i \in 1 .. Len(pending) : pending[i].k = "unlink" /\ pending[i].file = f

\* C24: after any sequence of generator operations the play history holds at
\* most maxHistorySize (20) titles: it is the music titles selected so far, in
\* the order of selection, less the oldest ones beyond the capacity (each
\* selection is appended at the end and evicts exactly the oldest title once the
\* capacity is exceeded); the filler item is never recorded.
C24_HistoryIsLastSelections ==
  LET n == Len(out.sel)
      kept == IF n > 20 THEN 20 ELSE n
  IN  /\ Len(lastPlayedMusic) <= 20
      /\ lastPlayedMusic = SubSeq(out.sel, n - kept + 1, n)
      /\ createFallbackItem.title \notin Range(lastPlayedMusic)

C24_Witness ==
  /\ out.fn = "generatePlaylist" /\ ~out.err
  /\ Len(out.sel) = maxHistorySize + 2
  /\ Len(lastPlayedMusic) = maxHistorySize
  /\ Head(lastPlayedMusic) = out.sel[3]
  /\ lastPlayedMusic[maxHistorySize] = out.res[Len(out.res)].title

\* C25: a list entry played member by member (playSequenceIndividually): the
\* step that pops it hands its first member to playTrack and keeps the rest for
\* the timer; while members remain, every timer callback hands over exactly the
\* next one and leaves the queue alone, no handler plays anything else, whatever
\* the triggers insert meanwhile, and the queue is popped again only by the
\* callback of the timer set for the last member.
C25_MembersInOrderThenPop ==
  [][LET remaining == {i \in 1 .. Len(timers) : timers[i].seq # <<>>}
         pops == lastOp'.op \in {"initialize", "scheduleNext"}
         started == timers' # <<>> /\ timers'[Len(timers')].cb = "seq"
     IN  /\ pops => remaining = {}
         /\ pops /\ started => queue # <<>> /\ Head(queue).seg
         /\ pops /\ queue # <<>> /\ Head(queue).seg /\ lastOp'.played # NullItem =>
              /\ queue' = Tail(queue)
              /\ lastOp'.played = Head(queue).items[1]
              /\ timers' = <<[cb |-> "seq", seq |-> Tail(Head(queue).items)]>>
         /\ remaining # {} =>
              /\ Cardinality(remaining) = 1 /\ Len(timers) = 1
              /\ lastOp'.op = "playRest" \/ (lastOp'.played = NullItem /\ timers' = timers)
              /\ lastOp'.op = "playRest" =>
                   /\ lastOp'.played = Head(timers[1].seq)
                   /\ timers' = <<[cb |-> "seq", seq |-> Tail(timers[1].seq)]>>
                   /\ queue' = queue /\ currentTrack' = currentTrack]_vars

\* The ad break <<TO_AD_1, AD_1, AD_1>> played member by member with a trigger
\* taken in between: its last member has just been handed over, the triggered
\* entry is still waiting.
C25_Witness ==
  /\ lastOp.op = "playRest" /\ lastOp.played = LibItem("AD_1")
  /\ currentTrack = LibItem("TO_AD_1")
  /\ timers = <<[cb |-> "seq", seq |-> <<>>]>>
  /\ queue # <<>> /\ Head(queue) = Single(createFallbackItem)

\* C26: the members of a pair built by generatePlaylist are played back to
\* back.  For the pair DJ intro + music: when the intro is the current item, the
\* entry scheduleNext takes next is the music item the intro was built with, and
\* never an entry a weather, time or ad trigger has inserted meanwhile.
C26_PairPlayedBackToBack ==
  [][(lastOp'.op = "scheduleNext" /\ ~crashed' /\ currentTrack.title \in library.intros)
       => currentTrack'.title \in library.music]_vars

\* C27: the startTime of an item is assigned once, when the item is taken from
\* the queue for playback, and not changed afterwards, so that
\* getCurrentTrack().startTime is the time at which the current item started
\* playing.
C27_StartTimeIsDequeueTime ==
  currentTrack # NullItem => getCurrentTrackStartTime = out.dequeuedAt

\* C28: when getCurrentWeather rejects, or resolves with a snapshot that has no
\* condition string, scheduleWeatherSegment returns without raising to its
\* caller, and leaves the queue, the current track and the advance timers as
\* they were.
C28_WeatherFailureChangesNothing ==
  [][lastOp'.op = "weatherFailed" =>
       /\ ~crashed'
       /\ queue' = queue
       /\ currentTrack' = currentTrack
       /\ timers' = timers]_vars

C28_Witness ==
  /\ lastOp.op = "weatherFailed"
  /\ Len(queue) >= 2 /\ Head(queue).seg
  /\ currentTrack # NullItem /\ timers # <<>>

\* C29: in the playlist generatePlaylist(n) returns, the station id is forced
\* with a period of 5 to 7 positions whatever the random draws: never at
\* position 0, never less than 5 positions after the start or after the
\* previous forced station id, and never more than 7.
C29_StationIdPeriod ==
  (out.fn = "generatePlaylist" /\ library = IdLibrary /\ ~out.err) =>
    LET forced == {i \in 0 .. out.n - 1 : out.res[i + 1] = LibItem("id1")}
    IN  /\ 0 \notin forced
        /\ \A i \in forced : i >= 5
        /\ \A i, j \in forced : i < j => j - i >= 5
        /\ \A i \in forced \cup {0} :
             i + 7 <= out.n - 1 => \E j \in forced : i < j /\ j <= i + 7

\* C30: a metadata record written by sendICYMetadata is 1 + 16 * k bytes long,
\* with k = ceil(L / 16) and L the length of the text in bytes; its first byte,
\* read as an unsigned 8-bit value, is k; the text follows unmodified and the
\* bytes after it are zero; for every L.
C30_RecordFraming ==
  out.fn = "sendICYMetadata" =>
    LET L == Len(out.text)
        k == IF L % 16 = 0 THEN L \div 16 ELSE L \div 16 + 1
    IN  /\ Len(out.packet) = 1 + 16 * k
        /\ out.packet[1] = k
        /\ SubSeq(out.packet, 2, L + 1) = out.text
        /\ \A i \in L + 2 .. Len(out.packet) : out.packet[i] = 0

\* C31: from the first scheduleNext of initialize() on, exactly one timer of the
\* advance chain is pending after every handler of the running process: the
\* timer of a single item, of a list handed to playGaplessSequence, or of a
\* member of a list played item by item, with the cron triggers, stop() and the
\* events of the pipelines taken at any moment.  Never none, never two.
C31_OneAdvanceTimer ==
  (phase = "initialized" /\ ~crashed) => Len(timers) = 1

\* The last member of a list played item by item is on the air, the entry of a
\* trigger is waiting in the queue, and the one timer is the one set for that
\* member, with nothing of the list left.
C31_Witness ==
  /\ phase = "initialized" /\ ~crashed
  /\ lastOp.op = "playRest"
  /\ queue # <<>>
  /\ timers = <<[cb |-> "seq", seq |-> <<>>]>>

\* C32: the 'error' event of a pipeline process that a later play call has
\* replaced leaves the pipeline that is active alone: the active process is
\* neither killed nor replaced, it stays the engine's current process and
\* stream, and the item on the air stays the same.
C32_StaleErrorIsIgnored ==
  [][\A p \in 1 .. Len(procs) :
       (/\ procs[p].st = "failed" /\ procs'[p].st = "errored"
        /\ sm.ffmpegProcess > p
        /\ sm.ffmpegProcess \in Running(procs))
       => /\ sm'.ffmpegProcess = sm.ffmpegProcess
          /\ procs'[sm.ffmpegProcess].st = "running"
          /\ sm'.currentStream = sm.currentStream
          /\ sm'.currentTrack = sm.currentTrack]_vars

\* C33: for every GET /stream request RadioServer has handled, the response
\* object is in the listener set of the stream manager from the return of the
\* route handler until the request's 'close' event, and is not in it after.
C33_StreamListenerMembership ==
  \A s \in out.handled :
    /\ s \notin out.closed => s \in sm.clients
    /\ s \in out.closed => s \notin sm.clients

====
